---------------------------- MODULE Spec2Model ----------------------------
(* Effort-hours aggregation tool (src/code.py): the sheet extraction        *)
(* heuristic, the employee registry, report generation and the menu shell.  *)
(* Strings are sequences of one-character strings, so that lower-casing,    *)
(* prefix/suffix tests and regular-expression matches are computed.         *)
EXTENDS Integers, Sequences, FiniteSets, TLC

VARIABLES
  df_sheet,      \* the grid handed to the Sheet Extractor
  extracted,     \* whether the extractor has run on it
  cleaned,       \* the rows it returned
  pc,            \* where the process is
  ret,           \* where generate_report returns to
  stateFile,     \* known_employees.json
  files,         \* the data directory: file name -> what the file is
  now,           \* the clock, in seconds
  table,         \* the table loaded for the visualisation under way
  rep,           \* generate_report's locals, until it returns
  advEmployees,  \* advanced_mode's local list employees
  prompts,       \* check_for_changes' locals, until it returns
  declined,      \* the missing identifiers the operator declined to remove
  removal,       \* remove_employee's locals, until it returns
  saveArg,       \* the list last handed to save_known_employees
  loadResult     \* what load_known_employees last returned, and from which file

extractVars == <<df_sheet, extracted, cleaned>>

registryVars == <<saveArg, loadResult>>

shellVars ==
  <<pc, ret, stateFile, files, now, table, rep, advEmployees, prompts, declined,
    removal>>

vars ==
  <<df_sheet, extracted, cleaned, pc, ret, stateFile, files, now, table, rep,
    advEmployees, prompts, declined, removal, saveArg, loadResult>>

-----------------------------------------------------------------------------
(* Characters and strings *)

\* The characters used, in ASCII order.
Chars ==
  << " ", "%", "-", ".",
     "0", "1", "2", "3", "4", "5", "6", "7", "8", "9",
     "A", "B", "C", "D", "E", "F", "G", "H", "I", "J", "K", "L", "M",
     "N", "O", "P", "Q", "R", "S", "T", "U", "V", "W", "X", "Y", "Z",
     "_",
     "a", "b", "c", "d", "e", "f", "g", "h", "i", "j", "k", "l", "m",
     "n", "o", "p", "q", "r", "s", "t", "u", "v", "w", "x", "y", "z" >>

CharSet == {Chars[i] : i \in 1..Len(Chars)}

Ord == [c \in CharSet |-> CHOOSE i \in 1..Len(Chars) : Chars[i] = c]

Digits == <<"0", "1", "2", "3", "4", "5", "6", "7", "8", "9">>

DigitSet == {Digits[i] : i \in 1..Len(Digits)}

UpperSet == {c \in CharSet : Ord[c] >= Ord["A"] /\ Ord[c] <= Ord["Z"]}

\* str.lower() on one character.
LowerChar == [c \in CharSet |-> IF c \in UpperSet THEN Chars[Ord[c] - Ord["A"] + Ord["a"]] ELSE c]

\* str.lower()
Lower(s) == [i \in 1..Len(s) |-> LowerChar[s[i]]]

\* str.startswith
StartsWith(s, p) == Len(s) >= Len(p) /\ SubSeq(s, 1, Len(p)) = p

\* str.endswith
EndsWith(s, p) == Len(s) >= Len(p) /\ SubSeq(s, Len(s) - Len(p) + 1, Len(s)) = p

\* re.search of a literal pattern: the pattern occurs somewhere in s.
ContainsLiteral(s, p) ==
  \E i \in 0..(Len(s) - Len(p)) : SubSeq(s, i + 1, i + Len(p)) = p

\* The whole of s is the word followed by one or more digits (word\d+).
WordDigits(s, word) ==
  /\ Len(s) > Len(word)
  /\ SubSeq(s, 1, Len(word)) = word
  /\ \A i \in (Len(word) + 1)..Len(s) : s[i] \in DigitSet

\* Lexicographic order of strings, as Python compares them.
RECURSIVE StrLess(_, _)
StrLess(a, b) ==
  IF Len(b) = 0 THEN FALSE
  ELSE IF Len(a) = 0 THEN TRUE
  ELSE IF a[1] = b[1] THEN StrLess(Tail(a), Tail(b))
  ELSE Ord[a[1]] < Ord[b[1]]

\* str() of a non-negative integer.
RECURSIVE NatStr(_)
NatStr(n) == IF n < 10 THEN <<Digits[n + 1]>> ELSE NatStr(n \div 10) \o <<Digits[(n % 10) + 1]>>

\* str() of an integer.
IntStr(n) == IF n < 0 THEN <<"-">> \o NatStr(0 - n) ELSE NatStr(n)

\* str() of a float holding an integral value.
FloatStr(n) == IntStr(n) \o <<".", "0">>

-----------------------------------------------------------------------------
(* Bounds *)

\* Seconds the clock may reach.
MaxTime == 2

\* Numbers the operator types on one selection line.
MaxSel == 2

\* Rows of a sheet built row by row.
MaxRows == 3

-----------------------------------------------------------------------------
(* Sheet Extractor: _extract_study_hours_from_sheet *)

\* A cell of a sheet read with header=None: a string, an integer or a missing value.
StrCell(s) == [k |-> "str", s |-> s, n |-> 0]

IntCell(n) == [k |-> "int", s |-> <<>>, n |-> n]

NaN == [k |-> "nan", s |-> <<>>, n |-> 0]

\* DataFrame.empty: no rows or no columns.
IsEmpty(df) == Len(df) = 0 \/ Len(df[1]) = 0

NumCols(df) == IF Len(df) = 0 THEN 0 ELSE Len(df[1])

\* The dtype pandas gives column c of the sheet: object as soon as one cell is a
\* string, float64 when numbers and missing values mix (or all are missing),
\* int64 when every cell is an integer.
ColDtype(df, c) ==
  IF \E r \in 1..Len(df) : df[r][c].k = "str" THEN "object"
  ELSE IF \E r \in 1..Len(df) : df[r][c].k = "nan" THEN "float64"
  ELSE "int64"

\* iterrows() yields each row as one Series of the columns' common dtype.
RowDtype(df) ==
  IF \E c \in 1..NumCols(df) : ColDtype(df, c) = "object" THEN "object"
  ELSE IF \E c \in 1..NumCols(df) : ColDtype(df, c) = "float64" THEN "float64"
  ELSE "int64"

\* astype(str) of one value; asFloat when the value is held as a float.
AsStr(cell, asFloat) ==
  IF cell.k = "str" THEN cell.s
  ELSE IF cell.k = "nan" THEN <<"n", "a", "n">>
  ELSE IF asFloat THEN FloatStr(cell.n)
  ELSE IntStr(cell.n)

\* row.astype(str).str.lower() at column c (line 89).
RowStr(df, r, c) ==
  Lower(AsStr(df[r][c], ColDtype(df, c) = "float64" \/ RowDtype(df) = "float64"))

\* df_data[col].astype(str) at sheet row r (lines 101, 108).
ColStr(df, r, c) == AsStr(df[r][c], ColDtype(df, c) = "float64")

STUDY_ID_TOKEN == <<"s", "t", "u", "d", "y", " ", "i", "d">>

STUDY_LOWER == <<"s", "t", "u", "d", "y">>

STUDY_UPPER == <<"S", "T", "U", "D", "Y">>

\* row_str.str.contains("study id", na=False).any() (line 90)
RowHasHeader(df, r) ==
  \E c \in 1..NumCols(df) : ContainsLiteral(RowStr(df, r, c), STUDY_ID_TOKEN)

\* row_str.str.contains(r"^study\d+$", regex=True, na=False).any() (line 93)
RowHasStudy(df, r) ==
  \E c \in 1..NumCols(df) : WordDigits(RowStr(df, r, c), STUDY_LOWER)

\* Rows of the sheet at which the scan of lines 88-95 breaks.
ScanHits(df) == {r \in 1..Len(df) : RowHasHeader(df, r) \/ RowHasStudy(df, r)}

FirstHit(df) == CHOOSE r \in ScanHits(df) : \A q \in ScanHits(df) : r <= q

\* A variant of StartAt that keeps the header row in the data region
\* (data_start = idx whatever the row holds).
StartAtIndex(df, r) == r - 1

\* data_start when the scan breaks at row r (pandas index idx = r - 1):
\* idx + 1 for a header row, idx for a row that already holds a study id.
StartAt(df, r) == IF RowHasHeader(df, r) THEN r ELSE r - 1

\* data_start (lines 87-95): the number of leading rows left out of df_data.
DataStart(df) == IF ScanHits(df) = {} THEN 0 ELSE StartAt(df, FirstHit(df))

\* Sheet rows of df_data = df_sheet.iloc[data_start:] (line 97).
DataRowsFrom(df, data_start) == (data_start + 1)..Len(df)

DataRows(df) == DataRowsFrom(df, DataStart(df))

\* str.fullmatch(r"STUDY\d+", na=False) on a stringified cell (lines 101, 108).
IsStudyId(s) == WordDigits(s, STUDY_UPPER)

\* Columns in which some cell of the data region is a study id (line 101).
StudyColsFrom(df, data_start) ==
  {c \in 1..NumCols(df) :
     \E r \in DataRowsFrom(df, data_start) : IsStudyId(ColStr(df, r, c))}

\* study_col (lines 99-103): the first such column, 0 for None.
StudyColFrom(df, data_start) ==
  LET cols == StudyColsFrom(df, data_start)
  IN  IF cols = {} THEN 0
      ELSE CHOOSE c \in cols : \A d \in cols : c <= d

StudyCol(df) == StudyColFrom(df, DataStart(df))

\* The sheet rows selected by the mask valid (line 108).
Valid(df, data_start, study_col) ==
  IF study_col = 0 THEN {}
  ELSE {r \in DataRowsFrom(df, data_start) : IsStudyId(ColStr(df, r, study_col))}

\* The sheet rows emitted: none for an empty sheet (line 84).
ValidRows(df) ==
  IF IsEmpty(df) THEN {}
  ELSE LET data_start == DataStart(df)
       IN  Valid(df, data_start, StudyColFrom(df, data_start))

\* numeric_cols = df_data.select_dtypes(include="number").columns (line 113):
\* df_data keeps the dtypes of the whole sheet.
NumericCols(df) == {c \in 1..NumCols(df) : ColDtype(df, c) # "object"}

\* Sum of row r over the columns cols, missing values skipped (line 114).
RECURSIVE SumCols(_, _, _)
SumCols(df, r, cols) ==
  IF cols = {} THEN 0
  ELSE LET c == CHOOSE x \in cols : TRUE
       IN  (IF df[r][c].k = "int" THEN df[r][c].n ELSE 0) + SumCols(df, r, cols \ {c})

\* The elements of a set of numbers in ascending order.
RECURSIVE Ascending(_)
Ascending(S) ==
  IF S = {} THEN <<>>
  ELSE LET m == CHOOSE x \in S : \A y \in S : x <= y
       IN  <<m>> \o Ascending(S \ {m})

\* _extract_study_hours_from_sheet (lines 83-117): the emitted rows, in sheet order.
ExtractStudyHours(df, sheet_name) ==
  LET data_start   == DataStart(df)
      study_col    == StudyColFrom(df, data_start)
      rows         == Ascending(Valid(df, data_start, study_col))
      numeric_cols == NumericCols(df)
  IN  [i \in 1..Len(rows) |->
         [StudyID |-> df[rows[i]][study_col].s,
          Hours   |-> SumCols(df, rows[i], numeric_cols),
          Sheet   |-> sheet_name]]

\* df_sheet.empty short-circuit of line 84 included.
extract_study_hours_from_sheet(df, sheet_name) ==
  IF IsEmpty(df) THEN <<>> ELSE ExtractStudyHours(df, sheet_name)

-----------------------------------------------------------------------------
(* Configuration and file names *)

DATA_FILE_EXTENSION == <<".", "x", "l", "s", "x">>

STATE_FILE ==
  <<"k", "n", "o", "w", "n", "_", "e", "m", "p", "l", "o", "y", "e", "e", "s",
    ".", "j", "s", "o", "n">>

CSV_EXTENSION == <<".", "c", "s", "v">>

EFFORT_LOWER == <<"e", "f", "f", "o", "r", "t">>

EFFORT_PREFIX == <<"E", "f", "f", "o", "r", "t">>

FILES_TAG == <<"F", "i", "l", "e", "s", "_">>

DATA_TAG == <<"D", "a", "t", "a", "_">>

EFFORT_DATA == EFFORT_PREFIX \o DATA_TAG

\* The employees of the model and the workbooks they may have.
alice == <<"a", "l", "i", "c", "e">>

bob == <<"b", "o", "b">>

dave == <<"d", "a", "v", "e">>

Employees == {alice, bob, dave}

STUDY1 == STUDY_UPPER \o <<"1">>

STUDY2 == STUDY_UPPER \o <<"2">>

W1 == <<"W", "1">>

W2 == <<"W", "2">>

NOTES == <<"N", "o", "t", "e", "s">>

MetadataSheets ==
  { <<"c", "o", "v", "e", "r">>, <<"s", "u", "m", "m", "a", "r", "y">>,
    <<"n", "o", "t", "e", "s">>, <<"i", "n", "f", "o">> }

\* The sheets of each employee's workbook: alice has 10 hours on STUDY1 and a
\* notes sheet, bob 20 hours on STUDY1 and 5 on STUDY2 over two sheets, dave a
\* sheet without any study row.
WorkbookOf(e) ==
  IF e = alice THEN
    << [name |-> NOTES, grid |-> << <<StrCell(STUDY2), IntCell(99)>> >>],
       [name |-> W1, grid |-> << <<StrCell(STUDY1), IntCell(4), IntCell(6)>> >>] >>
  ELSE IF e = bob THEN
    << [name |-> W1, grid |-> << <<StrCell(STUDY1), IntCell(20)>>,
                                <<StrCell(STUDY2), IntCell(2)>> >>],
       [name |-> W2, grid |-> << <<StrCell(STUDY2), IntCell(3)>> >>] >>
  ELSE
    << [name |-> W1, grid |-> << <<StrCell(<<"o", "f", "f">>), NaN>> >>] >>

\* A clock value as strftime("%Y%m%d_%H%M%S") prints it: fixed width, so that
\* later instants print lexicographically greater.
DAY_PREFIX == <<"2", "0", "2", "6", "0", "1", "0", "1", "_", "0", "0">>

TwoDigits(n) == IF n < 10 THEN <<"0">> \o NatStr(n) ELSE NatStr(n)

Strftime(t) == DAY_PREFIX \o TwoDigits((t \div 60) % 60) \o TwoDigits(t % 60)

\* os.path.splitext(f)[0]: the name up to its last dot, unless only dots precede it.
LastDot(f) ==
  LET dots == {i \in 1..Len(f) : f[i] = "."}
  IN  IF dots = {} THEN 0 ELSE CHOOSE i \in dots : \A j \in dots : j <= i

SplitExtRoot(f) ==
  LET d == LastDot(f)
  IN  IF d = 0 \/ (\A i \in 1..(d - 1) : f[i] = ".") THEN f ELSE SubSeq(f, 1, d - 1)

\* The strings of a set, sorted ascending.
RECURSIVE Sorted(_)
Sorted(S) ==
  IF S = {} THEN <<>>
  ELSE LET m == CHOOSE x \in S : \A y \in S \ {x} : StrLess(x, y)
       IN  <<m>> \o Sorted(S \ {m})

\* The strings of a set, sorted descending (sorted(..., reverse=True)).
RECURSIVE SortedReverse(_)
SortedReverse(S) ==
  IF S = {} THEN <<>>
  ELSE LET m == CHOOSE x \in S : \A y \in S \ {x} : StrLess(y, x)
       IN  <<m>> \o SortedReverse(S \ {m})

Range(q) == {q[i] : i \in 1..Len(q)}

-----------------------------------------------------------------------------
(* Employee Management *)

\* os.listdir(DATA_FOLDER): the state file lives in the same folder.
ListDir(dir, sf) == DOMAIN dir \cup (IF sf.kind = "absent" THEN {} ELSE {STATE_FILE})

\* load_known_employees (lines 23-30) on the state file sf, which is of kind
\*   "absent":    no file (line 24);
\*   "json":      an object whose "employees" is the list sf.employees;
\*   "string":    an object whose "employees" is the string sf.employees[1],
\*                which set() takes apart into its characters (line 28);
\*   "no_key":    an object without "employees": the default [] (line 28);
\*   "malformed": content on which json.load, .get or set() raises, such as
\*                text that is not JSON, an array, or "employees": null
\*                (lines 29-30).
LoadKnown(sf) ==
  IF sf.kind = "json" THEN Range(sf.employees)
  ELSE IF sf.kind = "string"
    THEN {<<sf.employees[1][i]>> : i \in 1..Len(sf.employees[1])}
  ELSE {}

\* save_known_employees (lines 32-34)
SaveKnown(employees) == [kind |-> "json", employees |-> Sorted(employees)]

\* list(employees) (line 34): the elements of the set, in any order.
ListsOf(S) ==
  {q \in [1..Cardinality(S) -> S] : \A i, j \in 1..Cardinality(S) : q[i] = q[j] => i = j}

\* sorted() inserts each element in front of the first greater one.
RECURSIVE InsertSorted(_, _)
InsertSorted(x, q) ==
  IF Len(q) = 0 THEN <<x>>
  ELSE IF StrLess(x, Head(q)) THEN <<x>> \o q
  ELSE <<Head(q)>> \o InsertSorted(x, Tail(q))

\* A variant of SortedList that writes the list as it is handed over.
UnsortedList(q) == q

\* sorted(list(employees)) (line 34) on the list as set iteration yields it.
RECURSIVE SortedList(_)
SortedList(q) ==
  IF Len(q) = 0 THEN <<>> ELSE InsertSorted(Head(q), SortedList(Tail(q)))

\* save_known_employees (lines 32-34), the order of iteration made explicit.
SaveList(q) == [kind |-> "json", employees |-> SortedList(q)]

\* The test of line 40 on one file name.
IsDataFile(f) ==
  /\ EndsWith(Lower(f), DATA_FILE_EXTENSION)
  /\ ~StartsWith(Lower(f), EFFORT_LOWER)

\* Every file name the directory can hold: the state file, the employees'
\* workbooks, and the reports and flat tables of every prefix and instant.
KnownNames ==
  {STATE_FILE}
  \cup {e \o DATA_FILE_EXTENSION : e \in Employees}
  \cup {p \o tag \o Strftime(t) \o ext :
          p \in Employees \cup {EFFORT_PREFIX}, t \in 1..MaxTime,
          tag \in {FILES_TAG, DATA_TAG}, ext \in {DATA_FILE_EXTENSION, CSV_EXTENSION}}

\* os.path.splitext(f)[0] of the names that pass the test of line 40,
\* computed once for every known name.
DataFileRoot == [f \in {g \in KnownNames : IsDataFile(g)} |-> SplitExtRoot(f)]

\* get_current_files (lines 36-40)
CurrentFiles(dir, sf) ==
  {DataFileRoot[f] : f \in ListDir(dir, sf) \cap DOMAIN DataFileRoot}

\* A variant of EmployeeFiles that lists the employees in descending order.
EmployeeFilesDescending(dir, sf) ==
  SortedReverse(LoadKnown(sf) \cap CurrentFiles(dir, sf))

\* get_employee_files (lines 80-81)
EmployeeFiles(dir, sf) == Sorted(LoadKnown(sf) \cap CurrentFiles(dir, sf))

load_known_employees == LoadKnown(stateFile)

get_current_files == CurrentFiles(files, stateFile)

get_employee_files == EmployeeFiles(files, stateFile)

-----------------------------------------------------------------------------
(* Data Loading *)

\* Concatenation of a sequence of sequences (pd.concat).
RECURSIVE Concat(_)
Concat(qs) == IF Len(qs) = 0 THEN <<>> ELSE Head(qs) \o Concat(Tail(qs))

\* The body of load_employee_data (lines 124-137) on the sheets of a workbook:
\* the rows of every sheet that is not a metadata sheet, in sheet order.
LoadSheets(sheets) ==
  Concat([i \in 1..Len(sheets) |->
            IF Lower(sheets[i].name) \in MetadataSheets THEN <<>>
            ELSE extract_study_hours_from_sheet(sheets[i].grid, sheets[i].name)])

\* What the loader returns for each employee's workbook, computed once.
LoadedWorkbook == [e \in Employees |-> LoadSheets(WorkbookOf(e))]

\* What a file of the directory is: an employee's workbook (book names whose),
\* a report workbook or a flat table. The rows of a flat table are not kept
\* with the file: the program only plots them.
WorkbookContent(e) == [kind |-> "workbook", book |-> e]

ReportContent == [kind |-> "report", book |-> <<>>]

TableContent == [kind |-> "table", book |-> <<>>]

\* load_employee_data (lines 119-140): nothing when the workbook is absent.
\* The registry only gains names at start-up, when the directory holds the
\* employees' workbooks, so the workbook read here is always an employee's.
LoadEmployeeData(dir, employee) ==
  LET path == employee \o DATA_FILE_EXTENSION
  IN  IF path \notin DOMAIN dir THEN <<>>
      ELSE LoadedWorkbook[dir[path].book]

\* df['Employee'] = e (lines 150-151, 379-380)
Stamp(rows, e) ==
  [i \in 1..Len(rows) |->
     [Employee |-> e, StudyID |-> rows[i].StudyID, Hours |-> rows[i].Hours,
      Sheet |-> rows[i].Sheet]]

\* The frames of the employees of a list, stamped, in list order.
StampedFrames(dir, employees) ==
  [i \in 1..Len(employees) |-> Stamp(LoadEmployeeData(dir, employees[i]), employees[i])]

\* load_all_data (lines 142-153)
LoadAllData(dir, sf) == Concat(StampedFrames(dir, EmployeeFiles(dir, sf)))

load_all_data == LoadAllData(files, stateFile)

-----------------------------------------------------------------------------
(* Report Generation *)

\* selected = [sorted(employees)[i-1] for i in nums if 1 <= i <= len(employees)]
RECURSIVE SelectByNumbers(_, _)
SelectByNumbers(employees, nums) ==
  IF Len(nums) = 0 THEN <<>>
  ELSE (IF 1 <= Head(nums) /\ Head(nums) <= Len(employees)
          THEN <<employees[Head(nums)]>> ELSE <<>>)
       \o SelectByNumbers(employees, Tail(nums))

\* prefix (lines 360-363)
ReportPrefix(selected) == IF Len(selected) = 1 THEN selected[1] ELSE EFFORT_PREFIX

\* excel_path, csv_path (lines 365-366)
ExcelPath(prefix, rdate) == prefix \o FILES_TAG \o rdate \o DATA_FILE_EXTENSION

CsvPath(prefix, rdate) == prefix \o DATA_TAG \o rdate \o CSV_EXTENSION

\* Writing a file creates it or replaces the one of that name.
WriteFile(dir, path, content) ==
  [f \in DOMAIN dir \cup {path} |-> IF f = path THEN content ELSE dir[f]]

\* Sum of the Hours of a sequence of rows.
RECURSIVE SumHours(_)
SumHours(rows) ==
  IF Len(rows) = 0 THEN 0 ELSE Head(rows).Hours + SumHours(Tail(rows))

\* Sum of the values of a function over the set S of its arguments.
RECURSIVE SumOver(_, _)
SumOver(f, S) ==
  IF S = {} THEN 0
  ELSE LET x == CHOOSE y \in S : TRUE
       IN  f[x] + SumOver(f, S \ {x})

\* No "Overall Summary" sheet.
NoSummary ==
  [emitted |-> FALSE, studies |-> {}, employees |-> {}, cells |-> <<>>,
   grand_total |-> <<>>, total_per_employee |-> <<>>, total_of_totals |-> 0]

\* full.pivot_table(index="Study ID", columns="Employee", values="Hours",
\* aggfunc="sum", fill_value=0) (line 400): one row per study and one column
\* per employee found in the rows of full, each cell the sum of the Hours of
\* the rows of that study and employee, 0 where there is none.
PivotTable(full) ==
  LET studies   == {full[i].StudyID : i \in 1..Len(full)}
      employees == {full[i].Employee : i \in 1..Len(full)}
  IN  [st \in studies |->
         [e \in employees |->
            SumHours(SelectSeq(full,
                       LAMBDA row : row.StudyID = st /\ row.Employee = e))]]

\* The "Overall Summary" sheet (lines 399-406): the pivot, its "Grand Total"
\* column (line 401) and its "Total per Employee" row (line 402), which also
\* sums the "Grand Total" column.
SummaryOf(full) ==
  LET pivot     == PivotTable(full)
      studies   == {full[i].StudyID : i \in 1..Len(full)}
      employees == {full[i].Employee : i \in 1..Len(full)}
      grand     == [st \in studies |-> SumOver(pivot[st], employees)]
  IN  [emitted |-> TRUE, studies |-> studies, employees |-> employees,
       cells |-> pivot,
       grand_total |-> grand,
       total_per_employee |->
         [e \in employees |-> SumOver([st \in studies |-> pivot[st][e]], studies)],
       total_of_totals |-> SumOver(grand, studies)]

\* if len(selected) > 1 and all_details: (line 398)
OverallSummary(selected, all_details) ==
  IF Len(selected) > 1 /\ all_details # <<>> THEN SummaryOf(all_details)
  ELSE NoSummary

NoReport ==
  [reached |-> FALSE, selected |-> <<>>, rdate |-> <<>>, excel_path |-> <<>>,
   csv_path |-> <<>>, all_details |-> <<>>, csv_saved |-> FALSE,
   overall |-> NoSummary]

\* all_details (lines 368-381): the stamped rows of the selected employees
\* that have any.
AllDetails(dir, selected) == Concat(StampedFrames(dir, selected))

\* if all_details: (line 410)
CsvIsWritten(all_details) == all_details # <<>>

\* The write step of generate_report (lines 357-415) for the list selected at
\* clock value t: the workbook is saved, the flat table only when all_details
\* is not empty (line 410).
WriteReport(dir, selected, t) ==
  LET rdate       == Strftime(t)
      prefix      == ReportPrefix(selected)
      excel_path  == ExcelPath(prefix, rdate)
      csv_path    == CsvPath(prefix, rdate)
      all_details == AllDetails(dir, selected)
      saved       == WriteFile(dir, excel_path, ReportContent)
  IN  [files |-> IF CsvIsWritten(all_details)
                   THEN WriteFile(saved, csv_path, TableContent)
                   ELSE saved,
       now   |-> t,
       rep   |-> [reached |-> TRUE, selected |-> selected, rdate |-> rdate,
                  excel_path |-> excel_path, csv_path |-> csv_path,
                  all_details |-> all_details,
                  csv_saved |-> CsvIsWritten(all_details),
                  overall |-> OverallSummary(selected, all_details)]]

\* selected (lines 335-355) for the operator's input: the menu choice and the
\* numbers typed (numeric = FALSE: not numbers); <<>> when generate_report
\* returns before the write step.
SelectedFor(employees, inp) ==
  IF inp.choice = <<"1">> THEN employees
  ELSE IF inp.choice = <<"2">> /\ inp.numeric THEN SelectByNumbers(employees, inp.nums)
  ELSE <<>>

\* The lists generate_report can arrive at for the employees tracked, over
\* every input of the operator (<<>>: it returns before the write step).
Selections(employees, inputs) == {SelectedFor(employees, inp) : inp \in inputs}

\* generate_report (lines 323-415) once selected is settled. The clock has
\* moved on by one second when it is read at line 357. Returns the directory,
\* clock and locals after.
GenerateReport(dir, clock, selected) ==
  IF selected = <<>> THEN [files |-> dir, now |-> clock, rep |-> NoReport]
  ELSE WriteReport(dir, selected, clock + 1)

\* The test of lines 311, 425, 504 and 567 on one file name.
IsEffortCsv(f) == StartsWith(f, EFFORT_DATA) /\ EndsWith(f, CSV_EXTENSION)

\* The known names that pass it, computed once.
EffortCsvNames == {f \in KnownNames : IsEffortCsv(f)}

\* csv_files (lines 311, 425, 504, 567)
EffortCsvFiles(dir, sf) == ListDir(dir, sf) \cap EffortCsvNames

\* csv_files[0] of the list sorted in reverse (lines 425-426, 504-505, 567-568).
LatestCsv(dir, sf) == SortedReverse(EffortCsvFiles(dir, sf))[1]

-----------------------------------------------------------------------------
(* Operator input *)

\* str.strip() of the blanks at both ends.
RECURSIVE Strip(_)
Strip(s) ==
  IF Len(s) = 0 THEN s
  ELSE IF Head(s) = " " THEN Strip(Tail(s))
  ELSE IF s[Len(s)] = " " THEN Strip(SubSeq(s, 1, Len(s) - 1))
  ELSE s

YES == <<"y">>

NO == <<"n">>

\* What the operator may answer to a yes/no prompt.
Answers == {<<"Y">>, <<"y", " ">>, <<"n">>, <<>>}

\* The numbers of one selection line: any list of at most MaxSel numbers, each
\* from 0 to one past the number of employees.
NumberLists ==
  UNION {[1..k -> 0..(Cardinality(Employees) + 1)] : k \in 0..MaxSel}

\* The operator's input to generate_report.
ReportInputs ==
  {[choice |-> <<"2">>, numeric |-> TRUE, nums |-> q] : q \in NumberLists}
  \cup {[choice |-> <<"1">>, numeric |-> TRUE, nums |-> <<>>],
        [choice |-> <<"2">>, numeric |-> FALSE, nums |-> <<>>],
        [choice |-> <<"9">>, numeric |-> TRUE, nums |-> <<>>]}

\* The clock stays within MaxTime.
ClockInBound == now < MaxTime

-----------------------------------------------------------------------------
(* Start-up *)

NoTable == [source |-> "none", name |-> <<>>, rows |-> <<>>]

NoPrompts == [new |-> {}, missing |-> {}, added |-> FALSE, removed |-> FALSE]

\* A data directory holding the workbooks of the employees of S.
DirOf(S) ==
  [f \in {e \o DATA_FILE_EXTENSION : e \in S} |-> WorkbookContent(SplitExtRoot(f))]

AbsentFile == [kind |-> "absent", employees |-> <<>>]

MalformedFile == [kind |-> "malformed", employees |-> <<>>]

\* {"version": 1}
NoKeyFile == [kind |-> "no_key", employees |-> <<>>]

\* {"employees": "bob"}
StringFile == [kind |-> "string", employees |-> <<bob>>]

\* A registry edited by hand: {"employees": ["bob", "alice", "bob"]}
HandEditedFile == [kind |-> "json", employees |-> <<bob, alice, bob>>]

\* remove_employee is not under way.
NoRemoval ==
  [reached |-> FALSE, employees |-> <<>>, numeric |-> FALSE, n |-> 0,
   confirm |-> <<>>, before |-> AbsentFile]

\* Neither function has been called.
NoSave == [called |-> FALSE, employees |-> <<>>]

NoLoad == [called |-> FALSE, employees |-> {}, file |-> AbsentFile]

RegistryIdle == saveArg = NoSave /\ loadResult = NoLoad

\* initialize_first_run (lines 42-55)
InitializeFirstRun ==
  /\ pc = "start"
  /\ \E ans \in Answers :
       stateFile' =
         IF stateFile.kind # "absent" THEN stateFile
         ELSE IF get_current_files = {} THEN stateFile
         ELSE IF Lower(Strip(ans)) # NO THEN SaveKnown(get_current_files)
         ELSE stateFile
  /\ pc' = "check"
  /\ UNCHANGED <<ret, files, now, table, rep, advEmployees, prompts, declined>>
  /\ UNCHANGED extractVars
  /\ UNCHANGED removal
  /\ UNCHANGED registryVars

\* known.update(new) (line 65)
AddNew(known, new) == known \cup new

\* A variant of RemoveMissing that forgets nobody.
RemoveMissingNobody(known, missing) == known

\* known.difference_update(missing) (line 71)
RemoveMissing(known, missing) == known \ missing

\* check_for_changes (lines 57-73), up to its closing prompt.
CheckForChanges ==
  /\ pc = "check"
  /\ \E addAns \in Answers, remAns \in Answers :
       LET known   == load_known_employees
           current == get_current_files
           new     == current \ known
           missing == known \ current
           add     == new # {} /\ Lower(addAns) = YES
           remove  == missing # {} /\ Lower(remAns) = YES
           known1  == IF add THEN AddNew(known, new) ELSE known
           known2  == IF remove THEN RemoveMissing(known1, missing) ELSE known1
       IN  /\ stateFile' = IF add \/ remove THEN SaveKnown(known2) ELSE stateFile
           /\ prompts' = [new |-> new, missing |-> missing,
                          added |-> add, removed |-> remove]
           /\ declined' = IF remove THEN {} ELSE missing
  /\ pc' = "checked"
  /\ UNCHANGED <<ret, files, now, table, rep, advEmployees>>
  /\ UNCHANGED extractVars
  /\ UNCHANGED removal
  /\ UNCHANGED registryVars

\* check_for_changes returns (lines 74-75) and the menu loop starts.
EnterMenu ==
  /\ pc = "checked"
  /\ pc' = "menu"
  /\ prompts' = NoPrompts
  /\ UNCHANGED <<ret, stateFile, files, now, table, rep, advEmployees, declined>>
  /\ UNCHANGED extractVars
  /\ UNCHANGED removal
  /\ UNCHANGED registryVars

-----------------------------------------------------------------------------
(* generate_report and its callers *)

\* generate_report (lines 323-415), called from the place from, up to the
\* prompt that ends every one of its paths.
CallGenerateReport(from) ==
  /\ ClockInBound
  /\ \E selected \in Selections(get_employee_files, ReportInputs) :
       \E r \in {GenerateReport(files, now, selected)} :
         files' = r.files /\ now' = r.now /\ rep' = r.rep
  /\ pc' = "report_prompt"
  /\ ret' = from

\* ensure_report_exists (lines 310-318): a flat table is there.
HasEffortCsv == EffortCsvFiles(files, stateFile) # {}

\* ensure_report_exists: the answer given when no flat table is there.
WantsReport(ans) == Lower(Strip(ans)) = YES

\* csv_files[0] then pd.read_csv, after ensure_report_exists returned True:
\* IndexError, which nothing catches, when the list is empty; otherwise the
\* table is loaded and the caller goes on at the place next.
ReadOrCrash(next) ==
  IF EffortCsvFiles(files, stateFile) = {}
    THEN pc' = "crashed" /\ table' = table
    ELSE /\ pc' = next
         /\ table' = [source |-> "csv", name |-> LatestCsv(files, stateFile),
                      rows |-> <<>>]

\* The operator presses Enter at generate_report's last prompt; it returns to
\* main_menu or to advanced_mode's loop.
ReportReturns ==
  /\ pc = "report_prompt"
  /\ ret \in {"menu", "advanced"}
  /\ pc' = ret
  /\ ret' = "none"
  /\ rep' = NoReport
  /\ UNCHANGED <<stateFile, files, now, table, advEmployees, prompts, declined>>
  /\ UNCHANGED extractVars
  /\ UNCHANGED removal
  /\ UNCHANGED registryVars

\* generate_report returns to ensure_report_exists, which returns True
\* (lines 316-317), in visualisation_menu (line 422) or in advanced_mode
\* choices 3 and 4 (line 498).
ReportReturnsToVisualisation ==
  /\ pc = "report_prompt"
  /\ ret \in {"charts", "adv_table"}
  /\ ReadOrCrash(ret)
  /\ ret' = "none"
  /\ rep' = NoReport
  /\ UNCHANGED <<stateFile, files, now, advEmployees, prompts, declined>>
  /\ UNCHANGED extractVars
  /\ UNCHANGED removal
  /\ UNCHANGED registryVars

\* generate_report returns to ensure_report_exists in advanced_mode choice 5
\* (line 554): an invalid day number is rejected before the table is read.
ReportReturnsToDayFilter ==
  /\ pc = "report_prompt"
  /\ ret = "adv_day"
  /\ \E dayValid \in BOOLEAN :
       IF dayValid THEN ReadOrCrash("adv_table")
       ELSE pc' = "advanced" /\ table' = table
  /\ ret' = "none"
  /\ rep' = NoReport
  /\ UNCHANGED <<stateFile, files, now, advEmployees, prompts, declined>>
  /\ UNCHANGED extractVars
  /\ UNCHANGED removal
  /\ UNCHANGED registryVars

-----------------------------------------------------------------------------
(* Main menu *)

\* A variant of RemoveEmployee that does not ask for the confirmation.
RemoveEmployeeUnconfirmed(sf, employees, numeric, n, confirm) ==
  IF Len(employees) = 0 THEN sf
  ELSE IF ~numeric THEN sf
  ELSE IF n = 0 THEN sf
  ELSE IF 1 <= n /\ n <= Len(employees)
    THEN SaveKnown(LoadKnown(sf) \ {employees[n]})
  ELSE sf

\* remove_employee (lines 595-622) on the number typed (numeric = FALSE: not a
\* number) and the answer to the confirmation, employees being the sorted list
\* of line 596.
RemoveEmployee(sf, employees, numeric, n, confirm) ==
  IF Len(employees) = 0 THEN sf
  ELSE IF ~numeric THEN sf
  ELSE IF n = 0 THEN sf
  ELSE IF 1 <= n /\ n <= Len(employees) THEN
         IF Lower(confirm) = YES
           THEN SaveKnown(LoadKnown(sf) \ {employees[n]})
           ELSE sf
  ELSE sf

\* What the operator types in remove_employee: nothing is read when no
\* employee is listed (lines 597-600); the confirmation is asked only for a
\* number of the list (lines 610-612).
RemovalInputs(employees) ==
  IF Len(employees) = 0
    THEN {[numeric |-> FALSE, n |-> 0, confirm |-> <<>>]}
    ELSE {[numeric |-> FALSE, n |-> 0, confirm |-> <<>>]}
         \cup {[numeric |-> TRUE, n |-> n, confirm |-> <<>>] :
                 n \in {0 - 1, 0, Len(employees) + 1}}
         \cup {[numeric |-> TRUE, n |-> n, confirm |-> c] :
                 n \in 1..Len(employees), c \in Answers}

\* remove_employee returns at once on the number 0 (lines 608-609).
RemovalCancelled(employees, inp) ==
  Len(employees) # 0 /\ inp.numeric /\ inp.n = 0

\* main_menu choice 1: remove_employee (lines 595-622) up to its last prompt.
MenuRemoveEmployee ==
  /\ pc = "menu"
  /\ \E employees \in {Sorted(Range(get_employee_files))} :
       \E inp \in RemovalInputs(employees) :
         /\ stateFile' =
              RemoveEmployee(stateFile, employees, inp.numeric, inp.n, inp.confirm)
         /\ IF RemovalCancelled(employees, inp)
              THEN pc' = pc /\ removal' = removal
              ELSE /\ pc' = "remove_prompt"
                   /\ removal' = [reached |-> TRUE, employees |-> employees,
                                  numeric |-> inp.numeric, n |-> inp.n,
                                  confirm |-> inp.confirm, before |-> stateFile]
  /\ UNCHANGED <<ret, files, now, table, rep, advEmployees, prompts, declined>>
  /\ UNCHANGED extractVars
  /\ UNCHANGED registryVars

\* The operator presses Enter at remove_employee's last prompt (line 622).
RemoveReturns ==
  /\ pc = "remove_prompt"
  /\ pc' = "menu"
  /\ removal' = NoRemoval
  /\ UNCHANGED <<ret, stateFile, files, now, table, rep, advEmployees, prompts,
                 declined>>
  /\ UNCHANGED extractVars
  /\ UNCHANGED registryVars

\* main_menu choice 2
MenuGenerateReport ==
  /\ pc = "menu"
  /\ CallGenerateReport("menu")
  /\ UNCHANGED <<stateFile, table, advEmployees, prompts, declined>>
  /\ UNCHANGED extractVars
  /\ UNCHANGED removal
  /\ UNCHANGED registryVars

\* main_menu choice 3: visualisation_menu up to its chart loop (lines 421-426).
MenuVisualisations ==
  /\ pc = "menu"
  /\ \/ /\ HasEffortCsv
        /\ ReadOrCrash("charts")
        /\ UNCHANGED <<ret, files, now, rep>>
     \/ /\ ~HasEffortCsv
        /\ \E ans \in Answers : WantsReport(ans)
        /\ CallGenerateReport("charts")
        /\ UNCHANGED table
     \/ /\ ~HasEffortCsv
        /\ \E ans \in Answers : ~WantsReport(ans)
        /\ UNCHANGED <<pc, ret, files, now, rep, table>>
  /\ UNCHANGED <<stateFile, advEmployees, prompts, declined>>
  /\ UNCHANGED extractVars
  /\ UNCHANGED removal
  /\ UNCHANGED registryVars

\* The chart loop (lines 428-461), any choice but 0: a plot, which safe_plot
\* keeps from raising, or a message.
ChartDraw ==
  /\ pc = "charts"
  /\ UNCHANGED shellVars
  /\ UNCHANGED extractVars
  /\ UNCHANGED registryVars

\* The chart loop, choice 0: back to main_menu.
ChartBack ==
  /\ pc = "charts"
  /\ pc' = "menu"
  /\ table' = NoTable
  /\ UNCHANGED <<ret, stateFile, files, now, rep, advEmployees, prompts, declined>>
  /\ UNCHANGED extractVars
  /\ UNCHANGED removal
  /\ UNCHANGED registryVars

\* main_menu choice 4: advanced_mode up to its menu (lines 466-473).
MenuAdvancedMode ==
  /\ pc = "menu"
  /\ IF Len(get_employee_files) = 0
       THEN pc' = pc /\ advEmployees' = advEmployees
       ELSE pc' = "advanced" /\ advEmployees' = get_employee_files
  /\ UNCHANGED <<ret, stateFile, files, now, table, rep, prompts, declined>>
  /\ UNCHANGED extractVars
  /\ UNCHANGED removal
  /\ UNCHANGED registryVars

\* main_menu choice 0
MenuExit ==
  /\ pc = "menu"
  /\ pc' = "exited"
  /\ UNCHANGED <<ret, stateFile, files, now, table, rep, advEmployees, prompts, declined>>
  /\ UNCHANGED extractVars
  /\ UNCHANGED removal
  /\ UNCHANGED registryVars

\* main_menu, any other choice
MenuInvalid ==
  /\ pc = "menu"
  /\ UNCHANGED shellVars
  /\ UNCHANGED extractVars
  /\ UNCHANGED registryVars

-----------------------------------------------------------------------------
(* Advanced mode *)

\* choice 0
AdvBack ==
  /\ pc = "advanced"
  /\ pc' = "menu"
  /\ advEmployees' = <<>>
  /\ UNCHANGED <<ret, stateFile, files, now, table, rep, prompts, declined>>
  /\ UNCHANGED extractVars
  /\ UNCHANGED removal
  /\ UNCHANGED registryVars

\* choice 1 prints the sheet counts; any choice outside 0-5 prints nothing.
AdvSheetCount ==
  /\ pc = "advanced"
  /\ UNCHANGED shellVars
  /\ UNCHANGED extractVars
  /\ UNCHANGED registryVars

\* choice 2
AdvGenerateReport ==
  /\ pc = "advanced"
  /\ CallGenerateReport("advanced")
  /\ UNCHANGED <<stateFile, table, advEmployees, prompts, declined>>
  /\ UNCHANGED extractVars
  /\ UNCHANGED removal
  /\ UNCHANGED registryVars

\* choices 3 and 4 up to the selection (lines 497-506): the table comes from
\* load_all_data when ensure_report_exists returns False, from the latest flat
\* table otherwise.
AdvVisualise ==
  /\ pc = "advanced"
  /\ \/ /\ HasEffortCsv
        /\ ReadOrCrash("adv_table")
        /\ UNCHANGED <<ret, files, now, rep>>
     \/ /\ ~HasEffortCsv
        /\ \E ans \in Answers : WantsReport(ans)
        /\ CallGenerateReport("adv_table")
        /\ UNCHANGED table
     \/ /\ ~HasEffortCsv
        /\ \E ans \in Answers : ~WantsReport(ans)
        /\ IF load_all_data = <<>>
             THEN pc' = pc /\ table' = table
             ELSE /\ pc' = "adv_table"
                  /\ table' = [source |-> "raw", name |-> <<>>, rows |-> load_all_data]
        /\ UNCHANGED <<ret, files, now, rep>>
  /\ UNCHANGED <<stateFile, advEmployees, prompts, declined>>
  /\ UNCHANGED extractVars
  /\ UNCHANGED removal
  /\ UNCHANGED registryVars

\* choice 5 up to the read of the flat table (lines 553-568).
AdvFilterByDay ==
  /\ pc = "advanced"
  /\ \/ /\ HasEffortCsv
        /\ \E dayValid \in BOOLEAN :
             IF dayValid THEN ReadOrCrash("adv_table")
             ELSE pc' = pc /\ table' = table
        /\ UNCHANGED <<ret, files, now, rep>>
     \/ /\ ~HasEffortCsv
        /\ \E ans \in Answers : WantsReport(ans)
        /\ CallGenerateReport("adv_day")
        /\ UNCHANGED table
     \/ /\ ~HasEffortCsv
        /\ \E ans \in Answers : ~WantsReport(ans)
        /\ UNCHANGED <<pc, ret, files, now, rep, table>>
  /\ UNCHANGED <<stateFile, advEmployees, prompts, declined>>
  /\ UNCHANGED extractVars
  /\ UNCHANGED removal
  /\ UNCHANGED registryVars

\* The rest of choices 3, 4 and 5 (lines 508-551, 570-590): the selection, the
\* filter and the plot change nothing but the screen, whatever is typed; the
\* loop of advanced_mode goes on.
AdvTableDone ==
  /\ pc = "adv_table"
  /\ pc' = "advanced"
  /\ table' = NoTable
  /\ UNCHANGED <<ret, stateFile, files, now, rep, advEmployees, prompts, declined>>
  /\ UNCHANGED extractVars
  /\ UNCHANGED removal
  /\ UNCHANGED registryVars

-----------------------------------------------------------------------------
(* The shell's specification *)

ExtractorIdle == df_sheet = <<>> /\ extracted = FALSE /\ cleaned = <<>>

Init ==
  /\ pc = "start"
  /\ ret = "none"
  /\ stateFile \in {AbsentFile, MalformedFile, NoKeyFile, StringFile}
                    \cup {SaveKnown(S) : S \in SUBSET Employees}
  /\ files \in {DirOf(S) : S \in SUBSET Employees}
  /\ now = 0
  /\ table = NoTable
  /\ rep = NoReport
  /\ advEmployees = <<>>
  /\ prompts = NoPrompts
  /\ declined = {}
  /\ removal = NoRemoval
  /\ ExtractorIdle
  /\ RegistryIdle

Next ==
  \/ InitializeFirstRun
  \/ CheckForChanges
  \/ EnterMenu
  \/ MenuRemoveEmployee
  \/ RemoveReturns
  \/ MenuGenerateReport
  \/ MenuVisualisations
  \/ ChartDraw
  \/ ChartBack
  \/ MenuAdvancedMode
  \/ MenuExit
  \/ MenuInvalid
  \/ AdvBack
  \/ AdvSheetCount
  \/ AdvGenerateReport
  \/ AdvVisualise
  \/ AdvFilterByDay
  \/ AdvTableDone
  \/ ReportReturns
  \/ ReportReturnsToVisualisation
  \/ ReportReturnsToDayFilter

Spec == Init /\ [][Next]_vars

-----------------------------------------------------------------------------
(* The Sheet Extractor's specification: a sheet is built row by row, then
   _extract_study_hours_from_sheet runs on it. *)

STUDY_ID_HEADER == <<"S", "t", "u", "d", "y", " ", "I", "D">>

study1 == <<"s", "t", "u", "d", "y", "1">>

STUDY1_PADDED == <<" ", "S", "T", "U", "D", "Y", "1", " ">>

JAN == <<"J", "a", "n">>

FEB == <<"F", "e", "b">>

JUNK == <<"j", "u", "n", "k">>

\* The sheet of the specification's first end-to-end example.
ExampleSheet ==
  << <<StrCell(STUDY_ID_HEADER), StrCell(JAN), StrCell(FEB)>>,
     <<StrCell(STUDY1), IntCell(3), IntCell(4)>>,
     <<StrCell(STUDY2), IntCell(0), IntCell(0)>>,
     <<StrCell(JUNK), StrCell(<<"x">>), StrCell(<<"y">>)>> >>

\* The cells a row added to the sheet may hold in its first and second column.
FirstCells ==
  {StrCell(STUDY_ID_HEADER), StrCell(STUDY1), StrCell(study1),
   StrCell(STUDY1_PADDED), IntCell(2)}

SecondCells == {IntCell(4), IntCell(0 - 3), StrCell(STUDY2), NaN}

RowChoices == {<<a, b>> : a \in FirstCells, b \in SecondCells}

\* The shell has not started.
ShellIdle ==
  /\ pc = "start"
  /\ ret = "none"
  /\ stateFile = AbsentFile
  /\ files = DirOf({})
  /\ now = 0
  /\ table = NoTable
  /\ rep = NoReport
  /\ advEmployees = <<>>
  /\ prompts = NoPrompts
  /\ declined = {}
  /\ removal = NoRemoval

InitExtract ==
  /\ df_sheet \in {<<>>, ExampleSheet}
  /\ extracted = FALSE
  /\ cleaned = <<>>
  /\ ShellIdle
  /\ RegistryIdle

\* One more row of the sheet read from the workbook.
AddRow ==
  /\ ~extracted
  /\ Len(df_sheet) < MaxRows
  /\ \E row \in RowChoices :
       /\ NumCols(df_sheet) \in {0, Len(row)}
       /\ df_sheet' = Append(df_sheet, row)
  /\ UNCHANGED <<extracted, cleaned>>
  /\ UNCHANGED shellVars
  /\ UNCHANGED registryVars

\* cleaned = _extract_study_hours_from_sheet(df_sheet, sheet_name) (line 130)
RunExtract ==
  /\ ~extracted
  /\ cleaned' = extract_study_hours_from_sheet(df_sheet, W1)
  /\ extracted' = TRUE
  /\ UNCHANGED df_sheet
  /\ UNCHANGED shellVars
  /\ UNCHANGED registryVars

NextExtract ==
  \/ AddRow
  \/ RunExtract

SpecExtract == InitExtract /\ [][NextExtract]_vars

-----------------------------------------------------------------------------
(* The registry file's specification: save_known_employees and
   load_known_employees called in any order on any state file. *)

\* The state files the program may find.
RegistryFiles ==
  {AbsentFile, MalformedFile, NoKeyFile, StringFile, HandEditedFile}
  \cup {SaveKnown(S) : S \in SUBSET Employees}

InitRegistry ==
  /\ stateFile \in RegistryFiles
  /\ pc = "start"
  /\ ret = "none"
  /\ files = DirOf({})
  /\ now = 0
  /\ table = NoTable
  /\ rep = NoReport
  /\ advEmployees = <<>>
  /\ prompts = NoPrompts
  /\ declined = {}
  /\ removal = NoRemoval
  /\ ExtractorIdle
  /\ RegistryIdle

\* save_known_employees(employees) for a set of identifiers, which list()
\* yields in the order q.
SaveRegistry ==
  /\ \E S \in SUBSET Employees : \E q \in ListsOf(S) :
       /\ saveArg' = [called |-> TRUE, employees |-> q]
       /\ stateFile' = SaveList(q)
  /\ UNCHANGED loadResult
  /\ UNCHANGED <<pc, ret, files, now, table, rep, advEmployees, prompts, declined,
                 removal>>
  /\ UNCHANGED extractVars

\* load_known_employees()
LoadRegistry ==
  /\ loadResult' = [called |-> TRUE, employees |-> LoadKnown(stateFile),
                    file |-> stateFile]
  /\ UNCHANGED saveArg
  /\ UNCHANGED shellVars
  /\ UNCHANGED extractVars

NextRegistry ==
  \/ SaveRegistry
  \/ LoadRegistry

SpecRegistry == InitRegistry /\ [][NextRegistry]_vars

-----------------------------------------------------------------------------
(* Claims about the shell, checked under Spec *)

\* C1: no menu action ends the process with an unhandled failure; the process
\* ends only when the operator chooses Exit.
C1_NoUnhandledFailure == pc # "crashed"

\* The process is past check_for_changes.
PastStartUp == pc \notin {"start", "check"}

\* C2 as stated: between menu actions the registry is a subset of the
\* identifiers get_current_files returns.
C2_RegistrySubsetOfFiles ==
  pc \in {"menu", "advanced"} => load_known_employees \subseteq get_current_files

\* C2, amended: once check_for_changes has run, every identifier of the
\* registry either is returned by get_current_files or is one that
\* check_for_changes reported missing and the operator declined to remove.
C2_RegistrySubsetUnlessDeclined ==
  PastStartUp => load_known_employees \subseteq (get_current_files \cup declined)

\* check_for_changes has just removed the missing identifiers it found, and
\* employees are left in the registry.
C2_Witness ==
  /\ pc = "checked"
  /\ prompts.missing # {}
  /\ prompts.removed
  /\ load_known_employees # {}

\* The flat tables of the directory, and the timestamp in a table's name.
FlatTables(dir) == {f \in DOMAIN dir : dir[f].kind = "table"}

TableStamp(f) == SubSeq(f, Len(f) - Len(CSV_EXTENSION) - Len(Strftime(0)) + 1,
                        Len(f) - Len(CSV_EXTENSION))

NewestTables(dir) ==
  {f \in FlatTables(dir) :
     \A g \in FlatTables(dir) : ~StrLess(TableStamp(f), TableStamp(g))}

\* C3: the table a visualisation loads from a file is the flat table with the
\* greatest timestamp among all flat tables written so far.
C3_LoadsNewestTable ==
  table.source = "csv" => table.name \in NewestTables(files)

\* C8: the rows of load_all_data carry only employees that are in the registry
\* and have a file; the rows of each such employee are that employee's loader
\* rows, stamped with the identifier; and employees come in ascending order.
C8_LoadAllData ==
  LET rows    == load_all_data
      tracked == load_known_employees \cap get_current_files
  IN  /\ \A i \in 1..Len(rows) : rows[i].Employee \in tracked
      /\ \A e \in tracked :
           SelectSeq(rows, LAMBDA row : row.Employee = e)
             = Stamp(LoadEmployeeData(files, e), e)
      /\ \A i \in 1..Len(rows) : \A j \in (i + 1)..Len(rows) :
           rows[i].Employee = rows[j].Employee
           \/ StrLess(rows[i].Employee, rows[j].Employee)
      /\ table.source = "raw" => table.rows = rows

\* load_all_data has been called for a visualisation and returned rows of two
\* employees, while the registry names an employee without a file and the
\* directory holds a workbook the registry does not name.
C8_Witness ==
  /\ table.source = "raw"
  /\ Cardinality({table.rows[i].Employee : i \in 1..Len(table.rows)}) >= 2
  /\ load_known_employees \ get_current_files # {}
  /\ get_current_files \ load_known_employees # {}

\* C9: a report that reaches the write step names its workbook
\* <Prefix>Files_<timestamp>.xlsx and its flat table <Prefix>Data_<timestamp>.csv,
\* Prefix being the employee's identifier when exactly one employee is
\* selected and "Effort" otherwise.
C9_PrefixByEmployeesSelected ==
  rep.reached =>
    LET who    == Range(rep.selected)
        prefix == IF Cardinality(who) = 1 THEN CHOOSE e \in who : TRUE
                  ELSE EFFORT_PREFIX
    IN  /\ rep.excel_path = prefix \o FILES_TAG \o rep.rdate \o DATA_FILE_EXTENSION
        /\ rep.csv_path = prefix \o DATA_TAG \o rep.rdate \o CSV_EXTENSION

\* C10: a report that saves a workbook also saves its flat table, under the
\* same prefix and timestamp, holding the detail rows of the selected employees.
C10_TableSavedWithWorkbook ==
  (rep.reached /\ rep.excel_path \in DOMAIN files) =>
    /\ rep.csv_path \in DOMAIN files
    /\ files[rep.csv_path].kind = "table"
    /\ rep.csv_saved
    /\ rep.all_details = AllDetails(files, rep.selected)

-----------------------------------------------------------------------------
(* Claims about the Sheet Extractor, checked under SpecExtract *)

\* The whole of s is STUDY followed by digits, whatever the case of the letters.
MatchesIgnoringCase(s) == WordDigits(Lower(s), STUDY_LOWER)

\* C4: every emitted row has Hours >= 0 and a Study ID that is STUDY followed
\* by one or more digits, case-insensitively.
C4_HoursNonNegative ==
  extracted =>
    \A i \in 1..Len(cleaned) :
      cleaned[i].Hours >= 0 /\ MatchesIgnoringCase(cleaned[i].StudyID)

\* Columns that hold at least one numeric value somewhere in the sheet.
ColumnsWithNumber(df) ==
  {c \in 1..NumCols(df) : \E r \in 1..Len(df) : df[r][c].k = "int"}

\* C5: the Hours of every emitted row is the sum of the row's numeric cells
\* over the columns that hold at least one numeric value anywhere in the sheet.
C5_HoursSumNumericColumns ==
  extracted =>
    LET rows == Ascending(ValidRows(df_sheet))
    IN  /\ Len(cleaned) = Len(rows)
        /\ \A i \in 1..Len(rows) :
             cleaned[i].Hours = SumCols(df_sheet, rows[i], ColumnsWithNumber(df_sheet))

\* Rows of the sheet holding the token "study id", and the first of them.
HeaderRows(df) == {r \in 1..Len(df) : RowHasHeader(df, r)}

FirstHeader(df) == CHOOSE r \in HeaderRows(df) : \A q \in HeaderRows(df) : r <= q

\* The data region starts right below the first header row and nothing at or
\* above that row is emitted.
StartsBelowHeader(df) ==
  /\ DataStart(df) = FirstHeader(df)
  /\ ValidRows(df) \cap 1..FirstHeader(df) = {}

\* C6 as stated: in every sheet with a "study id" row the data region starts
\* at that row's index + 1 and no row above it is emitted.
C6_HeaderStartsData ==
  (extracted /\ HeaderRows(df_sheet) # {}) =>
    /\ StartsBelowHeader(df_sheet)
    /\ Len(cleaned) = Cardinality(ValidRows(df_sheet))

\* C6, amended: the same, for sheets in which no row above the first
\* "study id" row holds a cell that is, lower-cased, study followed by digits.
C6_HeaderStartsDataUnlessStudyAbove ==
  (/\ extracted
   /\ HeaderRows(df_sheet) # {}
   /\ \A q \in 1..(FirstHeader(df_sheet) - 1) : ~RowHasStudy(df_sheet, q)) =>
    /\ StartsBelowHeader(df_sheet)
    /\ Len(cleaned) = Cardinality(ValidRows(df_sheet))

\* The extractor ran on a sheet whose header is its second row, below a row
\* that holds no study id, and emitted the row below the header.
C6_Witness ==
  /\ extracted
  /\ HeaderRows(df_sheet) # {}
  /\ FirstHeader(df_sheet) = 2
  /\ ~RowHasStudy(df_sheet, 1)
  /\ Len(df_sheet) = 3
  /\ Len(cleaned) = 1

\* The cell, stringified and trimmed, is STUDY<digits> case-insensitively.
TrimmedMatch(df, r, c) == MatchesIgnoringCase(Strip(ColStr(df, r, c)))

ClaimedCols(df) ==
  {c \in 1..NumCols(df) : \E r \in DataRows(df) : TrimmedMatch(df, r, c)}

ClaimedCol(df) ==
  IF ClaimedCols(df) = {} THEN 0
  ELSE CHOOSE c \in ClaimedCols(df) : \A d \in ClaimedCols(df) : c <= d

ClaimedRows(df) ==
  IF ClaimedCol(df) = 0 THEN {}
  ELSE {r \in DataRows(df) : TrimmedMatch(df, r, ClaimedCol(df))}

\* C7: the study-id column is the leftmost column of the data region with a
\* cell that, stringified and trimmed, is STUDY<digits> case-insensitively; the
\* output holds, in row order, exactly the data-region rows whose cell in that
\* column matches; with no such column the output is empty.
C7_TrimmedCaseInsensitiveColumn ==
  extracted =>
    LET rows == Ascending(ClaimedRows(df_sheet))
    IN  /\ StudyCol(df_sheet) = ClaimedCol(df_sheet)
        /\ Len(cleaned) = Len(rows)
        /\ \A i \in 1..Len(rows) :
             cleaned[i].StudyID = df_sheet[rows[i]][ClaimedCol(df_sheet)].s

-----------------------------------------------------------------------------
(* The "Overall Summary" sheet, checked under Spec *)

\* The employees of a selection, and those of them that have rows.
SelectedEmployees == Range(rep.selected)

SelectedWithData == {e \in SelectedEmployees : LoadEmployeeData(files, e) # <<>>}

\* The studies on which the selected employees have rows.
SelectedStudies ==
  UNION {{LoadEmployeeData(files, e)[i].StudyID :
            i \in 1..Len(LoadEmployeeData(files, e))} : e \in SelectedEmployees}

\* An employee's total hours on a study.
TotalHours(e, st) ==
  SumHours(SelectSeq(LoadEmployeeData(files, e), LAMBDA row : row.StudyID = st))

\* C11: a report holds an "Overall Summary" sheet iff more than one employee
\* is selected and one of them has data; the sheet has a cell for every study
\* and every selected employee, holding that employee's total hours on the
\* study (0 for none); "Grand Total" is the row-wise sum and "Total per
\* Employee" the column-wise sum.
C11_OverallSummary ==
  rep.reached =>
    LET sheet == rep.overall
    IN  /\ sheet.emitted <=>
             (Cardinality(SelectedEmployees) > 1 /\ SelectedWithData # {})
        /\ sheet.emitted =>
             /\ sheet.studies = SelectedStudies
             /\ sheet.employees = SelectedEmployees
             /\ \A st \in sheet.studies : \A e \in sheet.employees :
                  sheet.cells[st][e] = TotalHours(e, st)
             /\ \A st \in sheet.studies :
                  sheet.grand_total[st] = SumOver(sheet.cells[st], sheet.employees)
             /\ \A e \in sheet.employees :
                  sheet.total_per_employee[e]
                    = SumOver([st \in sheet.studies |-> sheet.cells[st][e]],
                              sheet.studies)

-----------------------------------------------------------------------------
(* The registry round trip, checked under SpecRegistry *)

\* The list is sorted ascending and holds no identifier twice.
StrictlyAscending(q) == \A i \in 1..(Len(q) - 1) : StrLess(q[i], q[i + 1])

\* Once save_known_employees has been called, the file holds the identifiers
\* handed over, sorted ascending without duplicates, whatever their order;
\* a load from that file returns the set handed over.
SaveThenLoad ==
  saveArg.called =>
    /\ stateFile.kind = "json"
    /\ StrictlyAscending(stateFile.employees)
    /\ stateFile = SaveKnown(Range(saveArg.employees))
    /\ (loadResult.called /\ loadResult.file = stateFile) =>
         loadResult.employees = Range(saveArg.employees)

-----------------------------------------------------------------------------
(* Report workbooks and identifier discovery, checked under Spec *)

\* The workbooks generate_report has written into the directory.
ReportWorkbooks == {f \in DOMAIN files : files[f].kind = "report"}

\* C13: no workbook written by generate_report is returned by
\* get_current_files as an employee identifier.
C13_ReportsAreNotEmployees ==
  \A f \in ReportWorkbooks : SplitExtRoot(f) \notin get_current_files

------------------------------------------------------------------------------
(* C14: the registry file is written only by the confirmed prompts *)

\* The operator chose a listed employee and answered y (lines 610-612).
RemovalConfirmed ==
  /\ removal.numeric
  /\ 1 <= removal.n /\ removal.n <= Len(removal.employees)
  /\ Lower(removal.confirm) = YES

\* At remove_employee's last prompt: a confirmed removal has taken exactly the
\* chosen identifier out of the registry, anything else has left the file as
\* it was.
RemovalEffect ==
  removal.reached =>
    IF RemovalConfirmed
      THEN /\ removal.employees[removal.n] \in LoadKnown(removal.before)
           /\ LoadKnown(stateFile) =
                LoadKnown(removal.before) \ {removal.employees[removal.n]}
      ELSE stateFile = removal.before

\* A step that changes the registry file is the first-run add, an answered
\* prompt of check_for_changes or a confirmed remove_employee.
RegistryWrittenByPrompt ==
  stateFile' # stateFile =>
    \/ /\ pc = "start"
       /\ stateFile.kind = "absent"
       /\ stateFile' = SaveKnown(get_current_files)
    \/ /\ pc = "check"
       /\ prompts'.added \/ prompts'.removed
       /\ LoadKnown(stateFile') =
            (LoadKnown(stateFile)
               \cup (IF prompts'.added THEN prompts'.new ELSE {}))
            \ (IF prompts'.removed THEN prompts'.missing ELSE {})
    \/ /\ pc = "menu"
       /\ pc' = "remove_prompt"
       /\ removal'.before = stateFile
       /\ Lower(removal'.confirm) = YES
       /\ Cardinality(LoadKnown(stateFile)) =
            Cardinality(LoadKnown(stateFile')) + 1

\* C14: the registry file changes only through the first-run add, the add-new
\* and remove-missing prompts of check_for_changes and a confirmed
\* remove_employee; a confirmed remove_employee removes exactly the chosen
\* identifier and keeps every other one; the number 0, a number out of range,
\* an input that is not a number or an answer other than y leaves the file
\* unchanged; generate_report, visualisation_menu and advanced_mode never
\* change it.
C14_RegistryChangesOnlyWhenConfirmed ==
  []RemovalEffect /\ [][RegistryWrittenByPrompt]_vars

\* remove_employee has removed one identifier on a confirmed choice while an
\* identifier without a file stays in the registry.
C14_Witness ==
  /\ pc = "remove_prompt"
  /\ removal.reached
  /\ RemovalConfirmed
  /\ stateFile # removal.before
  /\ LoadKnown(stateFile) \ get_current_files # {}

=============================================================================
